---- MODULE Spec2Model ----
(***************************************************************************)
(* FetcherWithEtag (ngx-fetcher-with-etag): the fetch / cache / poll state *)
(* machine of one endpoint, its PollingSubject, and the converter and      *)
(* equality of LocalDataLoaderEtagService that parameterise it.            *)
(*                                                                         *)
(* JavaScript values are boxed so that null, undefined, NaN, numbers and   *)
(* strings can meet in one field: the code tests several fields by         *)
(* truthiness, and a NaN timestamp is a value the code can store.          *)
(*                                                                         *)
(* One action is one run-to-completion piece of the program: the           *)
(* synchronous part of a call up to its first pending await, or the        *)
(* continuation that runs when the transport resolves a request (with the  *)
(* promise continuations of its callers, which run in the same turn).      *)
(***************************************************************************)
EXTENDS Integers, Sequences, FiniteSets, Bags, TLC

VARIABLES
    now,                            \* Date.now()
    url, etag, expires, lastFetchTimestamp, value, pollingTimeout,
    loading,                        \* loadingSubject's current value
    refreshInterval, fetchRefreshesWithoutInterval,
    observers,                      \* dataSubject.observers.length
    hasError,                       \* dataSubject.hasError (stopped by error())
    timers,                         \* the bag of pending setTimeout timers
    inflight,                       \* the bag of requests sent and not yet settled
    consumers,                      \* the subscribers of dataLoader$
    replay,                         \* the buffer of the shared ReplaySubject(1)
    completed,                      \* dataLoader$ has completed
    server,                         \* the version of the resource the server has
    last                            \* what the last step did

vars == <<now, url, etag, expires, lastFetchTimestamp, value, pollingTimeout,
          loading, refreshInterval, fetchRefreshesWithoutInterval, observers,
          hasError, timers, inflight, consumers, replay, completed, server,
          last>>

---------------------------------------------------------------------------
(* Bounds of the model *)

MaxTime == 3
MaxInflight == 1
MaxTimers == 1
MaxSubs == 2
MaxConsumers == 2
\* for the specifications of overlapping calls and of timers left pending
MaxOverlap == 2
MaxPending == 2
\* the versions the resource of the polled server goes through
MaxVersion == 3

---------------------------------------------------------------------------
(* JavaScript values *)

Null == [js |-> "null"]
Undefined == [js |-> "undefined"]
NaN == [js |-> "NaN"]
Num(n) == [js |-> "number", n |-> n]
Str(s) == [js |-> "string", s |-> s]
\* an HTTP-date header value: a string that Date parses to the time t
HttpDate(t) == [js |-> "string", s |-> "http-date", t |-> t]

IsNum(x) == "n" \in DOMAIN x

Truthy(x) ==
    /\ x # Null
    /\ x # Undefined
    /\ x # NaN
    /\ x # Num(0)
    /\ x # Str("")

\* new Date(s).getTime()
DateGetTime(s) == IF "t" \in DOMAIN s THEN Num(s.t) ELSE NaN

\* HTTP status codes
HttpStatusOk == 200
HttpStatusNotModified == 304
\* a 2xx status the fetcher does not expect (204 No Content)
UnexpectedStatuses == {204}
\* the statuses of an HttpErrorResponse
ErrorStatuses == {HttpStatusNotModified, 500}

---------------------------------------------------------------------------
(* Payloads, and the converter and equality LocalDataLoaderEtagService     *)
(* hands to the fetcher                                                    *)

idKey == "id"
itemsKey == "items"

\* the raw bodies the server may send (null: a response without a body)
BodyA == [etag |-> "a", items |-> <<[id |-> "x", name |-> "X"]>>]
BodyB == [etag |-> "b", items |-> <<[id |-> "x", name |-> "X2"],
                                    [id |-> "y", name |-> "Y"],
                                    [id |-> "x", name |-> "X4"]>>]
\* the etag field of BodyA over other items
BodyA2 == [etag |-> "a", items |-> <<[id |-> "y", name |-> "Y"]>>]
\* a payload without the items array
BodyNoItems == [etag |-> "c"]
Bodies == {BodyA, BodyB, BodyA2, BodyNoItems}

\* map[key] = entity
PutById(map, key, entity) ==
    [k \in DOMAIN map \cup {key} |-> IF k = key THEN entity ELSE map[k]]

EmptyById == [k \in {} |-> Null]

RECURSIVE ReduceById(_, _, _)
ReduceById(map, entities, k) ==
    IF entities = <<>> THEN map
    ELSE ReduceById(PutById(map, Head(entities)[k], Head(entities)),
                    Tail(entities), k)

\* createById() whose reduce keeps the entity a key already has
RECURSIVE createByIdKeepingFirst(_, _)
createByIdKeepingFirst(entities, k) ==
    IF entities = <<>> THEN EmptyById
    ELSE LET rest == createByIdKeepingFirst(Tail(entities), k)
         IN  PutById(rest, Head(entities)[k], Head(entities))

createById(entities, k) == ReduceById(EmptyById, entities, k)

\* LocalDataLoader.load(id): byId[id], undefined when id is no key
load(byId, id) == IF id \in DOMAIN byId THEN byId[id] ELSE Undefined

\* raw[itemsKey] is undefined: createById throws a TypeError on .reduce
converterThrows(raw) == itemsKey \notin DOMAIN raw

\* { ...raw, byId }
converter(raw) ==
    [f \in DOMAIN raw \cup {"byId"} |->
        IF f = "byId" THEN createById(raw[itemsKey], idKey) ELSE raw[f]]

\* isEqual() that compares the whole payloads
isEqualByContent(currentValue, newValue) == currentValue = newValue

isEqual(currentValue, newValue) == currentValue.etag = newValue.etag

---------------------------------------------------------------------------
(* Headers and what the transport may answer *)

\* AuthProvider.getAuthHeaders() of an application's provider
AuthHeaders == [Authorization |-> Str("Bearer t")]

\* HttpHeaders.set(name, v)
HeadersSet(h, name, v) ==
    [k \in DOMAIN h \cup {name} |-> IF k = name THEN v ELSE h[k]]

\* HttpHeaders.get(name): null when the header is absent
HeadersGet(h, name) == IF name \in DOMAIN h THEN h[name] ELSE Null

\* the ETag and Expires headers of an answer at time t: neither, a validator
\* with an expiry ahead, another validator with an expiry Date cannot parse
ResponseHeaders(t) ==
    {[ETag |-> Null, Expires |-> Null],
     [ETag |-> Str("v1"), Expires |-> HttpDate(t + 1)],
     [ETag |-> Str("v2"), Expires |-> Str("garbage")]}

\* what lastValueFrom(httpClient.get(...)) settles with at time t: an
\* HttpResponse (2xx, or a 304 the transport hands over as a response), an
\* HttpErrorResponse, or a failure that is no HTTP response
Outcomes(t) ==
    {[kind |-> "response", status |-> HttpStatusOk, headers |-> h, body |-> b] :
        h \in ResponseHeaders(t), b \in Bodies \cup {Null}}
    \cup
    {[kind |-> "response", status |-> HttpStatusNotModified, headers |-> h,
      body |-> Null] : h \in ResponseHeaders(t)}
    \cup
    {[kind |-> "response", status |-> st,
      headers |-> [ETag |-> Str("v1"), Expires |-> HttpDate(t + 1)],
      body |-> Null] : st \in UnexpectedStatuses}
    \cup
    {[kind |-> "httpError", status |-> HttpStatusNotModified, headers |-> h,
      body |-> Null] : h \in ResponseHeaders(t)}
    \cup
    {[kind |-> "httpError", status |-> st,
      headers |-> [ETag |-> Null, Expires |-> Null], body |-> Null] :
        st \in ErrorStatuses \ {HttpStatusNotModified}}
    \cup
    {[kind |-> "otherError", status |-> 0,
      headers |-> [ETag |-> Null, Expires |-> Null], body |-> Null]}

NoOutcome == [kind |-> "none"]

---------------------------------------------------------------------------
(* The state of one fetcher as a record, so that a handler is the          *)
(* composition of the methods it calls                                     *)

\* what a step did: the fetch() calls made in it and how each left its
\* synchronous part (calls), the requests issued (reqs), the transport
\* outcome handled (resp) and how the fetch() that awaited it ended (done),
\* the value that fetch() returned (ret), the raw bodies given to the
\* converter (conv), the values given to dataSubject.next (emit), the
\* delays of the timers armed (armed), the value a new subscriber got on
\* subscribing (sync), whether dataSubject.error was called (error), the
\* url of the request that was settled (url) and who awaited it (ctx), the
\* argument of the call (arg), the lookup objects the subscribers of
\* dataLoader$ got (out)
Log(op) ==
    [op |-> op, calls |-> <<>>, reqs |-> <<>>, resp |-> NoOutcome,
     done |-> "none", ret |-> Undefined, conv |-> <<>>, emit |-> <<>>,
     armed |-> <<>>, sync |-> <<>>, error |-> FALSE, url |-> Null,
     ctx |-> "none", arg |-> Null, out |-> <<>>]

Cur(op) ==
    [now |-> now, url |-> url, etag |-> etag, expires |-> expires,
     lastFetchTimestamp |-> lastFetchTimestamp, value |-> value,
     pollingTimeout |-> pollingTimeout, loading |-> loading,
     refreshInterval |-> refreshInterval,
     fetchRefreshesWithoutInterval |-> fetchRefreshesWithoutInterval,
     observers |-> observers, hasError |-> hasError, timers |-> timers,
     inflight |-> inflight, last |-> Log(op)]

\* the bounds of the model on what is pending in the state s
WithinBounds(s) ==
    /\ BagCardinality(s.inflight) <= MaxInflight
    /\ BagCardinality(s.timers) <= MaxTimers

\* the fetcher is in the state s after the step
EngineBecomes(s) ==
    /\ now' = s.now
    /\ url' = s.url
    /\ etag' = s.etag
    /\ expires' = s.expires
    /\ lastFetchTimestamp' = s.lastFetchTimestamp
    /\ value' = s.value
    /\ pollingTimeout' = s.pollingTimeout
    /\ loading' = s.loading
    /\ refreshInterval' = s.refreshInterval
    /\ fetchRefreshesWithoutInterval' = s.fetchRefreshesWithoutInterval
    /\ observers' = s.observers
    /\ hasError' = s.hasError
    /\ timers' = s.timers
    /\ inflight' = s.inflight
    /\ last' = s.last

\* the step to the state s of a fetcher that no dataLoader$ is built on
Becomes(s) ==
    /\ EngineBecomes(s)
    /\ UNCHANGED <<consumers, replay, completed, server>>

---------------------------------------------------------------------------
(* FetcherWithEtag *)

getValue(s) == s.value

\* getRefreshIntervalInMilliseconds() that leaves the Expires header out
getRefreshIntervalIgnoringExpires(s) ==
    LET isValidRefreshInterval ==
            /\ Truthy(s.lastFetchTimestamp)
            /\ Truthy(s.refreshInterval)
            /\ s.lastFetchTimestamp.n + s.refreshInterval.n > s.now
        interval ==
            IF isValidRefreshInterval
            THEN s.lastFetchTimestamp.n + s.refreshInterval.n - s.now ELSE 0
        isInvalidInterval ==
            /\ interval = 0
            /\ s.value # Undefined
            /\ ~Truthy(s.expires)
            /\ ~Truthy(s.refreshInterval)
    IN  IF isInvalidInterval THEN Undefined ELSE Num(interval)

\* getRefreshIntervalInMilliseconds() that leaves refreshInterval out
getRefreshIntervalIgnoringRefresh(s) ==
    LET isValidExpiration == Truthy(s.expires) /\ s.expires.n > s.now
        interval == IF isValidExpiration THEN s.expires.n - s.now ELSE 0
        isInvalidInterval ==
            /\ interval = 0
            /\ s.value # Undefined
            /\ ~Truthy(s.expires)
            /\ ~Truthy(s.refreshInterval)
    IN  IF isInvalidInterval THEN Undefined ELSE Num(interval)

\* getRefreshIntervalInMilliseconds() that keeps the longer of the two waits
getRefreshIntervalLonger(s) ==
    LET isValidExpiration == Truthy(s.expires) /\ s.expires.n > s.now
        interval1 == IF isValidExpiration THEN s.expires.n - s.now ELSE 0
        isValidRefreshInterval ==
            /\ Truthy(s.lastFetchTimestamp)
            /\ Truthy(s.refreshInterval)
            /\ s.lastFetchTimestamp.n + s.refreshInterval.n > s.now
        refresh == s.lastFetchTimestamp.n + s.refreshInterval.n - s.now
        interval2 ==
            IF isValidRefreshInterval /\ (interval1 = 0 \/ interval1 < refresh)
            THEN refresh ELSE interval1
        isInvalidInterval ==
            /\ interval2 = 0
            /\ s.value # Undefined
            /\ ~Truthy(s.expires)
            /\ ~Truthy(s.refreshInterval)
    IN  IF isInvalidInterval THEN Undefined ELSE Num(interval2)

\* getRefreshIntervalInMilliseconds() that answers 0 where it has no interval
getRefreshIntervalNeverUndefined(s) ==
    LET isValidExpiration == Truthy(s.expires) /\ s.expires.n > s.now
        interval1 == IF isValidExpiration THEN s.expires.n - s.now ELSE 0
        isValidRefreshInterval ==
            /\ Truthy(s.lastFetchTimestamp)
            /\ Truthy(s.refreshInterval)
            /\ s.lastFetchTimestamp.n + s.refreshInterval.n > s.now
        refresh == s.lastFetchTimestamp.n + s.refreshInterval.n - s.now
    IN  IF isValidRefreshInterval /\ (interval1 = 0 \/ interval1 > refresh)
        THEN Num(refresh) ELSE Num(interval1)

\* undefined, or Num(interval)
getRefreshIntervalInMilliseconds(s) ==
    LET isValidExpiration == Truthy(s.expires) /\ s.expires.n > s.now
        interval1 == IF isValidExpiration THEN s.expires.n - s.now ELSE 0
        isValidRefreshInterval ==
            /\ Truthy(s.lastFetchTimestamp)
            /\ Truthy(s.refreshInterval)
            /\ s.lastFetchTimestamp.n + s.refreshInterval.n > s.now
        refresh == s.lastFetchTimestamp.n + s.refreshInterval.n - s.now
        interval2 ==
            IF isValidRefreshInterval /\ (interval1 = 0 \/ interval1 > refresh)
            THEN refresh ELSE interval1
        isInvalidInterval ==
            /\ interval2 = 0
            /\ s.value # Undefined
            /\ ~Truthy(s.expires)
            /\ ~Truthy(s.refreshInterval)
    IN  IF isInvalidInterval THEN Undefined ELSE Num(interval2)

createExpires(expiresString) ==
    IF Truthy(expiresString) THEN DateGetTime(expiresString) ELSE Null

\* getHeaders() that never adds If-None-Match
getHeadersWithoutEtag(s) == AuthHeaders

getHeaders(s) ==
    IF ~Truthy(s.etag) THEN AuthHeaders
    ELSE HeadersSet(AuthHeaders, "If-None-Match", s.etag)

\* dataSubject.observed
observed(s) == s.observers > 0

\* dataSubject.next(v): a stopped subject delivers nothing
dataSubjectNext(s, v) ==
    IF s.hasError THEN s ELSE [s EXCEPT !.last.emit = Append(@, v)]

\* dataSubject.error(e): the observers get the error and are dropped
dataSubjectError(s) ==
    IF s.hasError THEN s
    ELSE [s EXCEPT !.hasError = TRUE, !.observers = 0, !.last.error = TRUE]

\* fetch() that issues no request while one is in flight
fetchCallJoining(s, ctx) ==
    LET interval == getRefreshIntervalInMilliseconds(s)
        left(how) == [s EXCEPT !.last.calls = Append(@, how)]
    IN  IF interval = Undefined /\ ~s.fetchRefreshesWithoutInterval
        THEN [left("never") EXCEPT !.last.ret = s.value]
        ELSE IF interval # Undefined /\ interval.n > 0
        THEN [left("fresh") EXCEPT !.last.ret = s.value]
        ELSE IF ~Truthy(s.url)
        THEN left("throw-url")
        ELSE IF s.inflight # EmptyBag
        THEN left("joined")
        ELSE LET request == [url |-> s.url, headers |-> getHeaders(s)]
             IN  [left("request") EXCEPT
                    !.loading = TRUE,
                    !.inflight = @ (+) SetToBag({[ctx |-> ctx, url |-> s.url]}),
                    !.last.reqs = Append(@, request)]

\* fetch() from its call to its first await. ctx is who awaits it: "caller"
\* (an application's call, or reset(), which does nothing after it), "start"
\* (refreshData() from setupPollingTimeout()) or "poll" (refreshData() from
\* onPollingTimeout())
fetchCall(s, ctx) ==
    LET interval == getRefreshIntervalInMilliseconds(s)
        left(how) == [s EXCEPT !.last.calls = Append(@, how)]
    IN  IF interval = Undefined /\ ~s.fetchRefreshesWithoutInterval
        THEN [left("never") EXCEPT !.last.ret = s.value]
        ELSE IF interval # Undefined /\ interval.n > 0
        THEN [left("fresh") EXCEPT !.last.ret = s.value]
        ELSE IF ~Truthy(s.url)
        THEN left("throw-url")
        ELSE LET request == [url |-> s.url, headers |-> getHeaders(s)]
             IN  [left("request") EXCEPT
                    !.loading = TRUE,
                    !.inflight = @ (+) SetToBag({[ctx |-> ctx, url |-> s.url]}),
                    !.last.reqs = Append(@, request)]

\* the comparison of fetch() left out: every converted payload is stored
acceptValueAlways(s, newValue) ==
    dataSubjectNext([s EXCEPT !.value = newValue], newValue)

\* the comparison of fetch() without its negation
acceptValueIfEqual(s, newValue) ==
    IF s.value = Undefined \/ isEqual(s.value, newValue)
    THEN dataSubjectNext([s EXCEPT !.value = newValue], newValue)
    ELSE s

\* fetch() once the converter has returned newValue: the value is stored and
\* given to the subscribers if none is known or it is not equal to the known one
acceptValue(s, newValue) ==
    IF s.value = Undefined \/ ~isEqual(s.value, newValue)
    THEN dataSubjectNext([s EXCEPT !.value = newValue], newValue)
    ELSE s

\* fetch() that stores the validators before it looks at the status
fetchResumeStoringFirst(s, o) ==
    LET got == [s EXCEPT !.last.resp = o]
    IN  IF o.kind # "response"
        THEN [got EXCEPT !.last.done =
                IF o.kind = "httpError" THEN "throw-http" ELSE "throw-other"]
        ELSE
        LET kept == [got EXCEPT
                !.loading = FALSE,
                !.etag = HeadersGet(o.headers, "ETag"),
                !.lastFetchTimestamp = Num(s.now),
                !.expires = createExpires(HeadersGet(o.headers, "Expires"))]
            returns(r) == [r EXCEPT !.last.done = "ok", !.last.ret = r.value]
        IN  IF o.status # HttpStatusOk /\ o.status # HttpStatusNotModified
            THEN [kept EXCEPT !.last.done = "throw-status"]
            ELSE IF o.status = HttpStatusNotModified THEN returns(kept)
            ELSE IF ~Truthy(o.body) THEN returns(kept)
            ELSE IF converterThrows(o.body)
            THEN [kept EXCEPT !.last.conv = Append(@, o.body),
                              !.last.done = "throw-convert"]
            ELSE returns(acceptValue(
                    [kept EXCEPT !.last.conv = Append(@, o.body)],
                    converter(o.body)))

\* fetch() after its await settled with the outcome o
fetchResume(s, o) ==
    LET got == [s EXCEPT !.last.resp = o]
    IN  IF o.kind # "response"
        THEN [got EXCEPT !.last.done =
                IF o.kind = "httpError" THEN "throw-http" ELSE "throw-other"]
        ELSE
        LET idle == [got EXCEPT !.loading = FALSE]
        IN  IF o.status # HttpStatusOk /\ o.status # HttpStatusNotModified
            THEN [idle EXCEPT !.last.done = "throw-status"]
            ELSE
            LET kept == [idle EXCEPT
                    !.etag = HeadersGet(o.headers, "ETag"),
                    !.lastFetchTimestamp = Num(s.now),
                    !.expires = createExpires(HeadersGet(o.headers, "Expires"))]
                returns(r) == [r EXCEPT !.last.done = "ok", !.last.ret = r.value]
            IN  IF o.status = HttpStatusNotModified THEN returns(kept)
                ELSE IF ~Truthy(o.body) THEN returns(kept)
                ELSE IF converterThrows(o.body)
                THEN [kept EXCEPT !.last.conv = Append(@, o.body),
                                  !.last.done = "throw-convert"]
                ELSE returns(acceptValue(
                        [kept EXCEPT !.last.conv = Append(@, o.body)],
                        converter(o.body)))

\* A pending timer is [due, held]: the time it is due, and whether its
\* handle is the one this.pollingTimeout holds. The handles themselves are
\* not told apart: the code keeps a handle nowhere else, so pollingTimeout is
\* undefined or TimeoutHandle, which names the held timer if one is pending
\* and a timer that has fired or was cleared otherwise.
TimeoutHandle == [js |-> "timeout"]

\* clearTimeout(handle): a handle that is undefined or has fired cancels nothing
clearTimeout(s, handle) ==
    IF handle = Undefined THEN s
    ELSE [s EXCEPT !.timers =
            [tm \in {x \in DOMAIN @ : ~x.held} |-> @[tm]]]

\* the pending timers once this.pollingTimeout is assigned another handle
Unheld(b) ==
    LET count(x) == IF x \in DOMAIN b THEN b[x] ELSE 0
    IN  [tm \in {[due |-> x.due, held |-> FALSE] : x \in DOMAIN b} |->
            count(tm) + count([due |-> tm.due, held |-> TRUE])]

\* this.pollingTimeout = setTimeout(callback, interval)
setTimeoutHeld(s, interval) ==
    [s EXCEPT
        !.timers = Unheld(@) (+)
                   SetToBag({[due |-> s.now + interval, held |-> TRUE]}),
        !.pollingTimeout = TimeoutHandle]

clearPollingTimeout(s) ==
    IF s.pollingTimeout = Undefined THEN s
    ELSE [clearTimeout(s, s.pollingTimeout) EXCEPT !.pollingTimeout = Undefined]

\* the catch of refreshData() for a fetch() that threw without awaiting:
\* an Error that is no HttpErrorResponse, which is dropped
refreshDataCall(s, ctx) == fetchCall(s, ctx)

\* refreshData() whose catch drops a 304 like a failure that is no HTTP error
refreshDataResumeDropping304(s, o) ==
    LET r == fetchResume(s, o)
    IN  IF r.last.done # "throw-http" THEN r
        ELSE IF o.status # HttpStatusNotModified THEN dataSubjectError(r)
        ELSE r

\* refreshData() whose catch gives every failure but a 304 to the subscribers
refreshDataResumeStrict(s, o) ==
    LET r == fetchResume(s, o)
    IN  IF r.last.done = "ok" THEN r
        ELSE IF r.last.done # "throw-http" \/ o.status # HttpStatusNotModified
        THEN dataSubjectError(r)
        ELSE [r EXCEPT
                !.etag = HeadersGet(o.headers, "ETag"),
                !.lastFetchTimestamp = Num(s.now),
                !.expires =
                    IF Truthy(HeadersGet(o.headers, "Expires"))
                    THEN DateGetTime(HeadersGet(o.headers, "Expires"))
                    ELSE Null]

\* refreshData() after the fetch() it awaits has settled with the outcome o
refreshDataResume(s, o) ==
    LET r == fetchResume(s, o)
    IN  IF r.last.done # "throw-http" THEN r
        ELSE IF o.status # HttpStatusNotModified THEN dataSubjectError(r)
        ELSE [r EXCEPT
                !.etag = HeadersGet(o.headers, "ETag"),
                !.lastFetchTimestamp = Num(s.now),
                !.expires =
                    IF Truthy(HeadersGet(o.headers, "Expires"))
                    THEN DateGetTime(HeadersGet(o.headers, "Expires"))
                    ELSE Null]

\* setupPollingTimeout() that only gives up the timer when there is no wait,
\* without the refreshData() of that branch
setupPollingTimeoutWithoutRefresh(s) ==
    LET interval == getRefreshIntervalInMilliseconds(s)
    IN  IF interval = Undefined
        THEN [clearTimeout(s, s.pollingTimeout) EXCEPT
                !.pollingTimeout = Undefined]
        ELSE [setTimeoutHeld(s, interval.n) EXCEPT
                !.last.armed = Append(@, interval.n)]

setupPollingTimeout(s) ==
    LET interval == getRefreshIntervalInMilliseconds(s)
    IN  IF interval = Undefined
        THEN refreshDataCall(
                [clearTimeout(s, s.pollingTimeout) EXCEPT
                    !.pollingTimeout = Undefined],
                "start")
        ELSE [setTimeoutHeld(s, interval.n) EXCEPT
                !.last.armed = Append(@, interval.n)]

\* onPollingTimeout() after its await of refreshData(), without the
\* setupPollingTimeout() that ends it
onPollingTimeoutResumeOnce(s) ==
    IF ~observed(s)
    THEN [clearTimeout(s, s.pollingTimeout) EXCEPT !.pollingTimeout = Undefined]
    ELSE s

\* onPollingTimeout() after its await of refreshData()
onPollingTimeoutResume(s) ==
    IF ~observed(s)
    THEN [clearTimeout(s, s.pollingTimeout) EXCEPT !.pollingTimeout = Undefined]
    ELSE setupPollingTimeout(s)

\* onPollingTimeout() from the timer's callback; a fetch() that returns or
\* throws without awaiting lets it run on in the same turn
onPollingTimeout(s) ==
    IF ~observed(s)
    THEN [clearTimeout(s, s.pollingTimeout) EXCEPT !.pollingTimeout = Undefined]
    ELSE LET r == refreshDataCall(s, "poll")
         IN  IF r.last.reqs # <<>> THEN r ELSE onPollingTimeoutResume(r)

\* reset() that forgets to clear lastFetchTimestamp
resetStateKeepingTimestamp(s, newUrl) ==
    LET cleared == [s EXCEPT !.etag = Null, !.expires = Null]
    IN  IF Truthy(newUrl) /\ newUrl # s.url
        THEN [cleared EXCEPT !.value = Undefined, !.url = newUrl]
        ELSE cleared

\* reset(newUrl): what it clears, and then the whole of it up to its await
\* of fetch()
resetState(s, newUrl) ==
    LET cleared == [s EXCEPT !.etag = Null, !.expires = Null,
                             !.lastFetchTimestamp = Null]
    IN  IF Truthy(newUrl) /\ newUrl # s.url
        THEN [cleared EXCEPT !.value = Undefined, !.url = newUrl]
        ELSE cleared

reset(s, newUrl) ==
    LET moved == resetState(s, newUrl)
    IN  IF moved.pollingTimeout # Undefined
        THEN setupPollingTimeout(clearPollingTimeout(moved))
        ELSE IF observed(moved) THEN fetchCall(moved, "caller")
        ELSE moved

---------------------------------------------------------------------------
(* PollingSubject *)

\* _subscribe() that starts polling for every subscriber
subscribeAlwaysStarting(s) ==
    LET started == setupPollingTimeout(s)
    IN  IF started.hasError
        THEN started
        ELSE LET admitted == [started EXCEPT !.observers = @ + 1]
             IN  IF getValue(admitted) # Undefined
                 THEN [admitted EXCEPT !.last.sync = <<getValue(admitted)>>]
                 ELSE admitted

\* _subscribe() that delivers getValue() as a BehaviorSubject would
subscribeDeliveringUndefined(s) ==
    LET started == IF ~observed(s) THEN setupPollingTimeout(s) ELSE s
    IN  IF started.hasError
        THEN started
        ELSE [started EXCEPT !.observers = @ + 1,
                             !.last.sync = <<getValue(started)>>]

\* _subscribe(subscriber)
subscribe(s) ==
    LET started == IF ~observed(s) THEN setupPollingTimeout(s) ELSE s
    IN  IF started.hasError
        THEN started   \* the subscriber gets the error; its subscription is closed
        ELSE LET admitted == [started EXCEPT !.observers = @ + 1]
             IN  IF getValue(admitted) # Undefined
                 THEN [admitted EXCEPT !.last.sync = <<getValue(admitted)>>]
                 ELSE admitted

\* a subscriber's subscription.unsubscribe(): the Subject drops the observer
unsubscribeOne(s) == [s EXCEPT !.observers = @ - 1]

\* PollingSubject.unsubscribe(), the Subject's own: it drops every observer
\* and then ends polling. dataSubject is private to the fetcher, which calls
\* it nowhere, and data$ is asObservable(); so no step of the program is it
unsubscribe(s) == clearPollingTimeout([s EXCEPT !.observers = 0])

---------------------------------------------------------------------------
(* The steps *)

Urls == {Str("u1"), Str("u2")}

\* the refreshInterval of the constructor: left out, or a number of milliseconds
RefreshIntervals == {Undefined, Num(2)}

Init ==
    /\ now = 1
    /\ url \in {Str(""), Str("u1")}
    /\ etag = Null
    /\ expires = Null
    /\ lastFetchTimestamp = Null
    /\ value = Undefined
    /\ pollingTimeout = Undefined
    /\ loading = FALSE
    /\ refreshInterval \in RefreshIntervals
    /\ fetchRefreshesWithoutInterval \in BOOLEAN
    /\ observers = 0
    /\ hasError = FALSE
    /\ timers = EmptyBag
    /\ inflight = EmptyBag
    /\ consumers = 0
    /\ replay = <<>>
    /\ completed = FALSE
    /\ server = 1
    /\ last = Log("init")

\* time passes
Tick ==
    /\ now < MaxTime
    /\ Becomes([Cur("tick") EXCEPT !.now = @ + 1])

\* an application calls fetch()
Fetch ==
    LET s == fetchCall(Cur("fetch"), "caller")
    IN  /\ WithinBounds(s)
        /\ Becomes(s)

\* an application calls reset(newUrl)
Reset ==
    \E newUrl \in Urls \cup {Undefined} :
        LET s == reset([Cur("reset") EXCEPT !.last.arg = newUrl], newUrl)
        IN  /\ WithinBounds(s)
            /\ Becomes(s)

\* a consumer subscribes to data$
Subscribe ==
    LET s == subscribe(Cur("subscribe"))
    IN  /\ observers < MaxSubs
        /\ WithinBounds(s)
        /\ Becomes(s)

\* a consumer unsubscribes from data$
Unsubscribe ==
    /\ observers > 0
    /\ Becomes(unsubscribeOne(Cur("unsubscribe")))

\* a pending timer is due and its callback runs
TimerFires ==
    \E tm \in BagToSet(timers) :
        LET s == onPollingTimeout(
                    [Cur("timer") EXCEPT !.timers = @ (-) SetToBag({tm})])
        IN  /\ tm.due <= now
            /\ WithinBounds(s)
            /\ Becomes(s)

\* the transport settles a request, and the fetch() awaiting it runs on
\* with the callers that await that fetch()
Settle(ctx) ==
    \E r \in BagToSet(inflight) :
        /\ r.ctx = ctx
        /\ \E o \in Outcomes(now) :
            LET s0 == [Cur("settle") EXCEPT
                        !.inflight = @ (-) SetToBag({r}),
                        !.last.url = r.url,
                        !.last.ctx = r.ctx]
                s == CASE ctx = "caller" -> fetchResume(s0, o)
                       [] ctx = "start" -> refreshDataResume(s0, o)
                       [] ctx = "poll" ->
                            onPollingTimeoutResume(refreshDataResume(s0, o))
            IN  /\ WithinBounds(s)
                /\ Becomes(s)

Next ==
    \/ Tick
    \/ Fetch
    \/ Reset
    \/ Subscribe
    \/ Unsubscribe
    \/ TimerFires
    \/ Settle("caller")
    \/ Settle("start")
    \/ Settle("poll")

Spec == Init /\ [][Next]_vars

---------------------------------------------------------------------------
(* Freshness as the specification words it, from the fields alone *)

\* Expires is still in the future
FreshByExpires == IsNum(expires) /\ expires.n > now

\* lastFetchTimestamp + refreshInterval is still in the future
FreshByRefreshInterval ==
    /\ IsNum(lastFetchTimestamp)
    /\ IsNum(refreshInterval)
    /\ lastFetchTimestamp.n + refreshInterval.n > now

\* the step is the settling of a request with an HttpResponse of the status
SettledWith(log, status) ==
    /\ log.op = "settle"
    /\ log.resp.kind = "response"
    /\ log.resp.status = status

\* the step is the settling of a request with a 200 that has a body the
\* converter accepts
SettledWithBody(log) ==
    /\ SettledWith(log, HttpStatusOk)
    /\ Truthy(log.resp.body)
    /\ ~converterThrows(log.resp.body)

---------------------------------------------------------------------------
(* C1: a 304, whether the transport hands it over as a response or as an  *)
(* HttpErrorResponse, never invokes the converter and never emits on the  *)
(* change stream; a 200 whose converted body is equal by isEqual to the   *)
(* cached value never emits, and leaves the cached value as it was.       *)
C1_NoEmissionWithoutChange ==
    [][/\ (last'.op = "settle" /\ last'.resp.status = HttpStatusNotModified)
            => (last'.conv = <<>> /\ last'.emit = <<>> /\ value' = value)
       /\ (/\ SettledWithBody(last')
           /\ value # Undefined
           /\ isEqual(value, converter(last'.resp.body)))
            => (last'.emit = <<>> /\ value' = value)]_vars

\* a 200 with another payload of the cached etag field was handled
C1_Witness ==
    /\ SettledWithBody(last)
    /\ last.resp.body = BodyA2
    /\ value = converter(BodyA)

(* C2: the cached value becomes another value only in a step that settles  *)
(* a request with a 200 whose body converts to that value, when no value   *)
(* was cached or the cached one is not equal to it by isEqual; the only    *)
(* other change of it is reset() to another URL forgetting it; whatever is *)
(* emitted on the change stream is the value stored in that step.          *)
C2_ValueReplacedOnlyByUnequalPayload ==
    [][/\ (value' # value /\ value' # Undefined)
            => /\ SettledWithBody(last')
               /\ value' = converter(last'.resp.body)
               /\ (value = Undefined \/ ~isEqual(value, value'))
       /\ (value' # value /\ value' = Undefined)
            => (last'.op = "reset" /\ last'.arg = url' /\ url' # url)
       /\ (last'.emit # <<>>)
            => (last'.emit = <<value'>> /\ value' # value)]_vars

\* a converted payload was stored, emitted and returned
C2_Witness ==
    /\ SettledWithBody(last)
    /\ last.resp.body = BodyB
    /\ value = converter(BodyB)
    /\ last.emit = <<value>>
    /\ last.ret = value

(* C3: fetch() called while Expires or lastFetchTimestamp + refreshInterval *)
(* is still in the future returns the cached value, issues no request and   *)
(* leaves etag, expires, lastFetchTimestamp, value, the loading signal and  *)
(* the requests in flight as they were.                                     *)
C3_FreshFetchIsLocal ==
    [][(last'.op = "fetch" /\ (FreshByExpires \/ FreshByRefreshInterval))
        => /\ last'.calls = <<"fresh">>
           /\ last'.reqs = <<>>
           /\ last'.ret = value
           /\ UNCHANGED <<etag, expires, lastFetchTimestamp, value, loading,
                          inflight, url, timers, pollingTimeout>>]_vars

\* fetch() returned a cached value that is still fresh
C3_Witness ==
    /\ last.op = "fetch"
    /\ last.calls = <<"fresh">>
    /\ value # Undefined
    /\ last.ret = value

(* C4: with a refresh interval R and no Expires held, a fetch() at time t  *)
(* after a request that completed at t0 issues a request if and only if    *)
(* t - t0 >= R, and otherwise returns the cached value.                    *)
C4_RefreshIntervalBoundary ==
    [][(/\ last'.op = "fetch"
        /\ Truthy(refreshInterval)
        /\ expires = Null
        /\ lastFetchTimestamp # Null)
        => /\ (last'.reqs # <<>>)
                <=> (now - lastFetchTimestamp.n >= refreshInterval.n)
           /\ (last'.reqs = <<>>) => (last'.ret = value /\ inflight' = inflight)]_vars

\* a request was issued by fetch() exactly refreshInterval after the last one
C4_Witness ==
    /\ last.op = "fetch"
    /\ last.reqs # <<>>
    /\ expires = Null
    /\ IsNum(lastFetchTimestamp)
    /\ IsNum(refreshInterval)
    /\ now - lastFetchTimestamp.n = refreshInterval.n

---------------------------------------------------------------------------
(* getRefreshIntervalInMilliseconds() on its own: every combination of the *)
(* clock and the fields it reads that a fetcher can hold. lastFetchTimestamp *)
(* is a past reading of the clock, and expires is set only together with it *)

RefreshIntervalsFresh == {Undefined} \cup {Num(r) : r \in 0..MaxTime}

InitFresh ==
    /\ now \in 1..MaxTime
    /\ url = Str("u1")
    /\ etag = Null
    /\ lastFetchTimestamp \in {Null} \cup {Num(t) : t \in 1..now}
    /\ expires \in IF lastFetchTimestamp = Null THEN {Null}
                   ELSE {Null, NaN} \cup {Num(t) : t \in 0..(MaxTime + 1)}
    /\ value \in {Undefined, converter(BodyA)}
    /\ pollingTimeout = Undefined
    /\ loading = FALSE
    /\ refreshInterval \in RefreshIntervalsFresh
    /\ fetchRefreshesWithoutInterval \in BOOLEAN
    /\ observers = 0
    /\ hasError = FALSE
    /\ timers = EmptyBag
    /\ inflight = EmptyBag
    /\ consumers = 0
    /\ replay = <<>>
    /\ completed = FALSE
    /\ server = 1
    /\ last = Log("init")

\* getRefreshIntervalInMilliseconds() is called and its result noted
GetRefreshInterval ==
    /\ last' = [Log("interval") EXCEPT
                    !.ret = getRefreshIntervalInMilliseconds(Cur("interval"))]
    /\ UNCHANGED <<now, url, etag, expires, lastFetchTimestamp, value,
                   pollingTimeout, loading, refreshInterval,
                   fetchRefreshesWithoutInterval, observers, hasError, timers,
                   inflight, consumers, replay, completed, server>>

NextFresh == GetRefreshInterval

SpecFresh == InitFresh /\ [][NextFresh]_vars

\* the remaining expiry time, present when expires > now
RemainingExpiry ==
    IF IsNum(expires) /\ expires.n > now THEN {expires.n - now} ELSE {}

\* the remaining refresh time, present when positive
RemainingRefresh ==
    IF /\ IsNum(lastFetchTimestamp)
       /\ IsNum(refreshInterval)
       /\ lastFetchTimestamp.n + refreshInterval.n - now > 0
    THEN {lastFetchTimestamp.n + refreshInterval.n - now} ELSE {}

Smallest(S) == CHOOSE m \in S : \A x \in S : m <= x

(* C5: getRefreshIntervalInMilliseconds() returns the smaller of the       *)
(* remaining expiry time and the remaining refresh time when both are      *)
(* present, the one that is present when only one is, and zero or          *)
(* undefined when neither is.                                              *)
C5_SmallerOfThePresentWaits ==
    last.op = "interval" =>
        IF RemainingExpiry \cup RemainingRefresh = {}
        THEN last.ret \in {Num(0), Undefined}
        ELSE last.ret = Num(Smallest(RemainingExpiry \cup RemainingRefresh))

\* both waits were present, the refresh one the shorter, and it was returned
C5_Witness ==
    /\ last.op = "interval"
    /\ RemainingExpiry # {}
    /\ RemainingRefresh # {}
    /\ \E e \in RemainingExpiry : \E r \in RemainingRefresh :
            r < e /\ last.ret = Num(r)

---------------------------------------------------------------------------
\* a value is known and there is neither an expiry nor a refresh interval
NoFreshnessSignal ==
    /\ value # Undefined
    /\ ~IsNum(expires)
    /\ ~Truthy(refreshInterval)

(* C6: when a value is known and neither an expiry nor a refresh interval  *)
(* exists, getRefreshIntervalInMilliseconds() is undefined, and fetch()    *)
(* issues a request if and only if fetchRefreshesWithoutInterval is true;  *)
(* otherwise it returns the cached value and changes nothing.              *)
C6_NeverRefreshedWithoutSignal ==
    [][(last'.op = "fetch" /\ NoFreshnessSignal)
        => /\ getRefreshIntervalInMilliseconds(Cur("fetch")) = Undefined
           /\ (last'.reqs # <<>>) <=> fetchRefreshesWithoutInterval
           /\ ~fetchRefreshesWithoutInterval
                => /\ last'.ret = value
                   /\ UNCHANGED <<now, url, etag, expires, lastFetchTimestamp,
                                  value, pollingTimeout, loading,
                                  refreshInterval, observers, hasError,
                                  timers, inflight>>]_vars

\* fetch() answered from a value that is never to be refreshed
C6_Witness ==
    /\ last.op = "fetch"
    /\ last.calls = <<"never">>
    /\ NoFreshnessSignal
    /\ last.ret = value

(* C7: after every fetch that received a 200 or a 304 response, etag is    *)
(* the response's ETag header or null when it is absent, expires is the    *)
(* parsed Expires header or null when it is absent or unparsable, and      *)
(* lastFetchTimestamp is the time of completion.                           *)
C7_ValidatorsFollowTheResponse ==
    (SettledWith(last, HttpStatusOk) \/ SettledWith(last, HttpStatusNotModified))
        => /\ etag = HeadersGet(last.resp.headers, "ETag")
           /\ expires =
                IF "t" \in DOMAIN HeadersGet(last.resp.headers, "Expires")
                THEN Num(HeadersGet(last.resp.headers, "Expires").t)
                ELSE Null
           /\ lastFetchTimestamp = Num(now)

\* a response with an Expires header Date cannot parse was handled
C7_Witness ==
    /\ SettledWith(last, HttpStatusOk)
    /\ HeadersGet(last.resp.headers, "Expires") = Str("garbage")
    /\ expires = NaN

\* the headers a request must carry while the validator held is tag
HeadersExpected(tag) ==
    IF tag = Null THEN AuthHeaders
    ELSE [k \in DOMAIN AuthHeaders \cup {"If-None-Match"} |->
            IF k = "If-None-Match" THEN tag ELSE AuthHeaders[k]]

C9_ResetClearsValidators ==
    [][(last'.op = "reset")
        => /\ etag' = Null
           /\ expires' = Null
           /\ lastFetchTimestamp' = Null
           /\ (last'.arg = Undefined \/ last'.arg = url)
                => (value' = value /\ url' = url)
           /\ (last'.arg # Undefined /\ last'.arg # url)
                => (value' = Undefined /\ url' = last'.arg)]_vars

\* reset() to the current URL kept a known value and cleared the validators
C9_Witness ==
    /\ last.op = "reset"
    /\ last.arg = url
    /\ value # Undefined
    /\ etag = Null
    /\ lastFetchTimestamp = Null

\* the timer whose handle this.pollingTimeout holds is pending
TimerArmed(pending) == \E tm \in BagToSet(pending) : tm.held

(* C10: when reset() is called while a polling timer is held, a polling    *)
(* timer is armed when reset() has finished its synchronous part, in every *)
(* configuration.                                                          *)
C10_ResetRearmsTimer ==
    [][(last'.op = "reset" /\ pollingTimeout # Undefined)
        => (pollingTimeout' # Undefined /\ TimerArmed(timers'))]_vars

\* reset() found a pending timer and left none, with no request either
C10_Witness ==
    /\ last.op = "reset"
    /\ last.calls = <<"never">>
    /\ observers > 0
    /\ pollingTimeout = Undefined
    /\ timers = EmptyBag
    /\ inflight = EmptyBag

---------------------------------------------------------------------------
\* something is pending that can still lead to a request without another
\* call of the application: a timer, or a request whose continuation runs on
StillPending == timers # EmptyBag \/ inflight # EmptyBag

(* C11: after reset() on a fetcher whose change stream has a subscriber, a *)
(* request is issued: by reset() itself, or later by what reset() left     *)
(* pending, for every refreshInterval and fetchRefreshesWithoutInterval    *)
(* and whether or not a value is cached.                                   *)
C11_ResetForcesRevalidation ==
    (last.op = "reset" /\ observers > 0 /\ Truthy(url))
        => (last.reqs # <<>> \/ StillPending)

\* reset() with a subscriber ended with no request and nothing pending
C11_Witness ==
    /\ last.op = "reset"
    /\ observers > 0
    /\ Truthy(url)
    /\ last.calls = <<"never">>
    /\ last.reqs = <<>>
    /\ ~StillPending

(* C12: in every reachable state a polling timer is pending only if the    *)
(* change stream has at least one subscriber.                              *)
C12_NoTimerWhileUnobserved ==
    timers # EmptyBag => observers > 0

\* the last subscriber has left and the timer is still pending
C12_Witness ==
    /\ last.op = "unsubscribe"
    /\ observers = 0
    /\ TimerArmed(timers)

(* C13: when the last subscriber unsubscribes, the stop-polling callback   *)
(* runs in that step: pollingTimeout is dropped and no timer stays armed.  *)
C13_LastUnsubscribeStopsPolling ==
    [][(last'.op = "unsubscribe" /\ observers = 1)
        => (pollingTimeout' = Undefined /\ ~TimerArmed(timers'))]_vars

\* the last subscriber has left and pollingTimeout still holds its handle
C13_Witness ==
    /\ last.op = "unsubscribe"
    /\ observers = 0
    /\ pollingTimeout = TimeoutHandle

---------------------------------------------------------------------------
\* the step invoked the start-polling callback: setupPollingTimeout() arms a
\* timer or calls fetch() through refreshData()
StartedPolling(log) == log.armed # <<>> \/ log.calls # <<>>

\* the subscribers there were when the subscription of this step was made:
\* a stream ended by an error has none and admits none
SubscribersBefore == IF hasError THEN 0 ELSE observers - 1

C16_NoPollingRequestWhileUnobserved ==
    (/\ last.reqs # <<>>
     /\ \/ last.op \in {"timer", "subscribe", "reset"}
        \/ (last.op = "settle" /\ last.ctx = "poll"))
        => observers > 0

\* reset() issued a request through the polling branch with no subscriber
C16_Witness ==
    /\ last.op = "reset"
    /\ last.reqs # <<>>
    /\ observers = 0

---------------------------------------------------------------------------
(* C17: the loading signal is false as soon as the request of a fetch()    *)
(* has resolved, with a response or with a failure: once a request has     *)
(* settled and none is issued or in flight, loading is false.              *)
C17_LoadingEndsWithTheRequest ==
    (last.op = "settle" /\ last.reqs = <<>> /\ inflight = EmptyBag)
        => loading = FALSE

\* the request of a fetch() failed and the loading signal is still true
C17_Witness ==
    /\ last.op = "settle"
    /\ last.done = "throw-http"
    /\ inflight = EmptyBag
    /\ loading = TRUE

(* C18: when a request resolves with a response whose status is neither    *)
(* 200 nor 304, fetch() fails with the unexpected-response error, and      *)
(* etag, expires, lastFetchTimestamp and value stay as they were, with no  *)
(* emission on the change stream.                                          *)
C18_UnexpectedStatusLeavesCache ==
    [][(/\ last'.op = "settle"
        /\ last'.resp.kind = "response"
        /\ last'.resp.status \notin {HttpStatusOk, HttpStatusNotModified})
        => /\ last'.done = "throw-status"
           /\ last'.emit = <<>>
           /\ last'.conv = <<>>
           /\ UNCHANGED <<etag, expires, lastFetchTimestamp, value>>]_vars

\* a 204 carrying validators was refused while a validator was cached
C18_Witness ==
    /\ last.op = "settle"
    /\ last.done = "throw-status"
    /\ last.resp.status \in UnexpectedStatuses
    /\ etag = Str("v2")
    /\ value # Undefined

(* C19: when the converter fails on a 200 body, fetch() fails and etag,    *)
(* expires, lastFetchTimestamp and value are the same as before the call.  *)
C19_ConverterFailureLeavesCache ==
    [][(last'.op = "settle" /\ last'.done = "throw-convert")
        => UNCHANGED <<etag, expires, lastFetchTimestamp, value>>]_vars

\* the converter failed and the validator of the refused body is cached with
\* the value of an earlier one
C19_Witness ==
    /\ last.op = "settle"
    /\ last.done = "throw-convert"
    /\ last.resp.headers.ETag = Str("v2")
    /\ etag = Str("v2")
    /\ value = converter(BodyA)

\* how a fetch() can fail other than by an HttpErrorResponse
OtherFailure(log) ==
    \/ log.done \in {"throw-convert", "throw-status", "throw-other"}
    \/ \E i \in DOMAIN log.calls : log.calls[i] = "throw-url"

(* C20: the subscribers get a terminal failure only from a polling-driven  *)
(* fetch that fails with an HttpErrorResponse of a status other than 304;  *)
(* a step in which a fetch fails otherwise (conversion, unexpected status, *)
(* a failure that is no HTTP response, no URL) delivers no failure and     *)
(* does not end the stream.                                                *)
C20_OnlyHttpFailuresEndTheStream ==
    /\ last.error
        => /\ last.op = "settle"
           /\ last.ctx \in {"start", "poll"}
           /\ last.resp.kind = "httpError"
           /\ last.resp.status # HttpStatusNotModified
           /\ hasError
    /\ OtherFailure(last) => ~last.error
    /\ hasError => observers = 0

\* a poll failed in the converter under a subscriber, who stays subscribed
C20_Witness ==
    /\ last.op = "settle"
    /\ last.ctx = "poll"
    /\ last.done = "throw-convert"
    /\ observers > 0
    /\ ~hasError

---------------------------------------------------------------------------
\* the step settled a polling-driven fetch with an HttpErrorResponse
PollFailedWith(log, statuses) ==
    /\ log.op = "settle"
    /\ log.ctx \in {"start", "poll"}
    /\ log.resp.kind = "httpError"
    /\ log.resp.status \in statuses

\* what an Expires header says: its time, null when absent, NaN otherwise
ExpiresOf(headers) ==
    IF headers.Expires = Null THEN Null
    ELSE IF "t" \in DOMAIN headers.Expires THEN Num(headers.Expires.t)
    ELSE NaN

\* a 304 failure of a polling-driven fetch revalidates: validators from the
\* failure's headers, the value kept, nothing emitted, the stream alive
Revalidated ==
    /\ etag' = last'.resp.headers.ETag
    /\ expires' = ExpiresOf(last'.resp.headers)
    /\ lastFetchTimestamp' = Num(now)
    /\ value' = value
    /\ last'.emit = <<>>
    /\ last'.conv = <<>>
    /\ ~last'.error
    /\ hasError' = hasError
    /\ observers' = observers

C27_HttpFailureEndsPolling ==
    PollFailedWith(last, ErrorStatuses \ {HttpStatusNotModified})
        => /\ hasError
           /\ observers = 0
           /\ ~TimerArmed(timers)
           /\ last.reqs = <<>>
           /\ last.armed = <<>>
           /\ last.ctx = "poll" => pollingTimeout = Undefined

\* an opportunistic fetch failed with a 500, the subscribers got the error
\* and the timer armed in the meantime is still pending
C27_Witness ==
    /\ PollFailedWith(last, ErrorStatuses \ {HttpStatusNotModified})
    /\ last.ctx = "start"
    /\ last.error
    /\ observers = 0
    /\ TimerArmed(timers)

---------------------------------------------------------------------------
(* C28 as stated: a subscription made after a polling failure ended the    *)
(* change stream starts polling afresh and is admitted, so that it gets    *)
(* the values fetched from then on.                                        *)
C28_NewSubscriberResumesPolling ==
    (last.op = "subscribe" /\ hasError)
        => (StartedPolling(last) /\ observers > 0)

\* a subscription made on the ended stream started polling and was not
\* admitted
C28_Witness ==
    /\ last.op = "subscribe"
    /\ hasError
    /\ StartedPolling(last)
    /\ last.reqs # <<>>
    /\ observers = 0

---------------------------------------------------------------------------
\* the wait start-polling computes when it is defined: the smaller of the
\* remaining times, zero when nothing remains
DefinedWait ==
    IF RemainingExpiry \cup RemainingRefresh = {} THEN 0
    ELSE Smallest(RemainingExpiry \cup RemainingRefresh)

\* the held timer is pending and due after the wait
ArmedFor(wait) ==
    /\ pollingTimeout = TimeoutHandle
    /\ [due |-> now + wait, held |-> TRUE] \in BagToSet(timers)

\* no timer is held
NoTimerHeld == pollingTimeout = Undefined /\ ~TimerArmed(timers)

(* C29: start-polling, which the subscription of a first subscriber runs,  *)
(* arms no timer and attempts exactly one fetch() when the wait is         *)
(* undefined; with a defined wait it arms a timer for exactly that wait    *)
(* and attempts no fetch().                                                *)
C29_StartPollingArmsOrFetches ==
    (last.op = "subscribe" /\ SubscribersBefore = 0)
        => IF NoFreshnessSignal
           THEN /\ last.armed = <<>>
                /\ Len(last.calls) = 1
                /\ NoTimerHeld
           ELSE /\ last.armed = <<DefinedWait>>
                /\ ArmedFor(DefinedWait)
                /\ last.calls = <<>>
                /\ last.reqs = <<>>

\* a first subscriber found a value without any freshness signal: one
\* request, no timer
C29_Witness ==
    /\ last.op = "subscribe"
    /\ NoFreshnessSignal
    /\ last.calls = <<"request">>
    /\ last.armed = <<>>
    /\ NoTimerHeld

---------------------------------------------------------------------------
\* the step ends a timer-driven poll: the awaited fetch() settled, or it
\* returned or threw without awaiting in the timer's own turn
PollCompleted(log) ==
    \/ log.op = "settle" /\ log.ctx = "poll"
    \/ log.op = "timer" /\ log.calls # <<>> /\ log.calls[1] # "request"

\* the fetch() calls of the step that follow the end of the poll
CallsAfterPoll(log) == IF log.op = "timer" THEN Tail(log.calls) ELSE log.calls

\* a timer that fires with a subscriber attempts one fetch(), one that
\* fires without any attempts none and gives up the timer
TimerPolls ==
    last.op = "timer"
        => IF observers > 0
           THEN last.calls # <<>>
           ELSE last.calls = <<>> /\ last.reqs = <<>> /\ NoTimerHeld

(* C30 as stated: each firing of the timer with a subscriber attempts one  *)
(* fetch(); when it completes with subscribers remaining a timer is armed  *)
(* again, and with none remaining the timer is cancelled.                  *)
C30_PollingContinuesWhileObserved ==
    /\ TimerPolls
    /\ PollCompleted(last)
        => IF observers > 0
           THEN Len(last.armed) = 1 /\ TimerArmed(timers)
           ELSE last.armed = <<>> /\ NoTimerHeld

(* C30, amended: each firing of the timer with a subscriber attempts one   *)
(* fetch(); when it completes with subscribers remaining the wait is       *)
(* computed again, and a timer is armed for it when it is defined, while   *)
(* an undefined wait arms none and attempts one more fetch(); with no      *)
(* subscriber remaining the timer is cancelled.                            *)
C30_PollingContinuesWhileWaitDefined ==
    /\ TimerPolls
    /\ PollCompleted(last)
        => IF observers = 0
           THEN last.armed = <<>> /\ NoTimerHeld
           ELSE IF NoFreshnessSignal
           THEN /\ last.armed = <<>>
                /\ NoTimerHeld
                /\ Len(CallsAfterPoll(last)) = 1
           ELSE /\ last.armed = <<DefinedWait>>
                /\ ArmedFor(DefinedWait)
                /\ CallsAfterPoll(last) = <<>>

\* a poll settled under a subscriber and the timer was armed for the
\* refresh interval
C30_Witness ==
    /\ last.op = "settle"
    /\ last.ctx = "poll"
    /\ observers > 0
    /\ last.armed = <<2>>
    /\ ArmedFor(2)

---------------------------------------------------------------------------
(* ngx-json-schema-forms: the validators of the control of a scalar schema *)

\* A schema is a record of the fields the form builder reads. type is
\* [one |-> t] for a type name and [many |-> <<t, ...>>] for an array of
\* them; enum tells whether the key is present; a missing field is undefined
allSchemaScalarTypes == {"string", "number", "integer", "boolean"}

IsArray(type) == "many" \in DOMAIN type

isSchemaNullable(schema) ==
    IF Truthy(schema.const) THEN schema.const = Null
    ELSE IF IsArray(schema.type)
    THEN \E i \in 1..Len(schema.type.many) : schema.type.many[i] = "null"
    ELSE schema.type.one = "null"

isEnumSchema(schema) == schema.enum

isPatternSchema(schema) == schema.pattern # Undefined

isNumberSchema(schema) ==
    ~IsArray(schema.type) /\ schema.type.one = "number"

isScalarSchema(schema) ==
    ~IsArray(schema.type) /\ schema.type.one \in allSchemaScalarTypes

isNullSchema(schema) == ~IsArray(schema.type) /\ schema.type.one = "null"

\* Validators.min(n), Validators.pattern(p), ..., Validators.required
Validator(name, arg) == [validator |-> name, arg |-> arg]

\* Validators.compose(validators), as the set of the validators it composes;
\* it is null for none
getScalarSchemaFormValidators(s, required) ==
    LET ofSchema ==
            IF isNumberSchema(s)
            THEN {Validator("min", s.minimum) : x \in
                        {y \in {1} : s.minimum # Undefined}}
                 \cup {Validator("max", s.maximum) : x \in
                        {y \in {1} : s.maximum # Undefined}}
            ELSE IF isEnumSchema(s) THEN {}
            ELSE IF isPatternSchema(s) /\ Truthy(s.pattern)
            THEN {Validator("pattern", s.pattern)}
            ELSE {Validator("minLength", s.minLength) : x \in
                        {y \in {1} : s.minLength # Undefined}}
                 \cup {Validator("maxLength", s.maxLength) : x \in
                        {y \in {1} : s.maxLength # Undefined}}
    IN  ofSchema \cup (IF required THEN {Validator("required", Null)} ELSE {})

\* a FormControl with its validators
FormControl(validators) == [control |-> "FormControl", validators |-> validators]

scalarSchemaToFormControl(s, required) ==
    FormControl(getScalarSchemaFormValidators(s, required))

\* anySchemaToForm(s, required) for a schema whose type is scalar, 'null'
\* or an array of type names; the branches for objects, arrays and
\* anyOf/oneOf/allOf follow these and are left out
anySchemaToForm(s, required) ==
    LET allowsNull == isSchemaNullable(s)
        applyRequired == required /\ ~allowsNull
    IN  IF IsArray(s.type)
        THEN LET types == SelectSeq(s.type.many, LAMBDA x : x # "null")
             IN  IF Len(types) = 1 /\ types[1] \in allSchemaScalarTypes
                 THEN scalarSchemaToFormControl(
                        [s EXCEPT !.type = [one |-> types[1]]], applyRequired)
                 ELSE IF Len(types) = 0 /\ allowsNull
                 THEN FormControl({})
                 ELSE FormControl(
                        IF applyRequired THEN {Validator("required", Null)}
                        ELSE {})
        ELSE IF isNullSchema(s) THEN FormControl({})
        ELSE IF isScalarSchema(s)
        THEN scalarSchemaToFormControl(s, applyRequired)
        ELSE Undefined

\* the schemas a property is given: every scalar type, alone or with
\* 'null', each constraint present or not
SchemaTypes ==
    {[one |-> x] : x \in allSchemaScalarTypes}
        \cup {[many |-> <<"string", "null">>],
              [many |-> <<"null", "integer">>],
              [many |-> <<"number", "null">>]}

Schemas ==
    [type : SchemaTypes,
     minimum : {Undefined, Num(0)},
     maximum : {Undefined, Num(2)},
     minLength : {Undefined, Num(1)},
     maxLength : {Undefined, Num(2)},
     pattern : {Undefined, Str("a")},
     enum : BOOLEAN,
     const : {Undefined, Str("a")}]

\* a property with its schema, required by its object or not, before its
\* control is built
InitForms ==
    /\ now = 1
    /\ url = Str("u1")
    /\ etag = Null
    /\ expires = Null
    /\ lastFetchTimestamp = Null
    /\ value = Undefined
    /\ pollingTimeout = Undefined
    /\ loading = FALSE
    /\ refreshInterval = Undefined
    /\ fetchRefreshesWithoutInterval = FALSE
    /\ observers = 0
    /\ hasError = FALSE
    /\ timers = EmptyBag
    /\ inflight = EmptyBag
    /\ consumers = 0
    /\ replay = <<>>
    /\ completed = FALSE
    /\ server = 1
    /\ \E schema \in Schemas, required \in BOOLEAN :
            last = [Log("init") EXCEPT
                        !.arg = [schema |-> schema, required |-> required]]

\* objSchemaToFormGroup builds the control of the property
BuildControl ==
    /\ last.op = "init"
    /\ last' = [last EXCEPT
                    !.op = "form",
                    !.ret = anySchemaToForm(last.arg.schema, last.arg.required)]
    /\ UNCHANGED <<now, url, etag, expires, lastFetchTimestamp, value,
                   pollingTimeout, loading, refreshInterval,
                   fetchRefreshesWithoutInterval, observers, hasError, timers,
                   inflight, consumers, replay, completed, server>>

NextForms == BuildControl

SpecForms == InitForms /\ [][NextForms]_vars

\* the type of the values of a scalar schema, 'null' aside
ScalarTypeOf(schema) ==
    IF ~IsArray(schema.type) THEN schema.type.one
    ELSE CHOOSE x \in allSchemaScalarTypes :
            \E i \in 1..Len(schema.type.many) : schema.type.many[i] = x

\* the schema admits null
AdmitsNull(schema) ==
    /\ schema.const = Undefined
    /\ IsArray(schema.type)
    /\ \E i \in 1..Len(schema.type.many) : schema.type.many[i] = "null"

\* the validators that match the constraints present in the schema
ConstraintValidators(schema) ==
    {Validator("min", schema.minimum) : x \in {y \in {1} :
        ScalarTypeOf(schema) \in {"number", "integer"}
            /\ schema.minimum # Undefined}}
    \cup {Validator("max", schema.maximum) : x \in {y \in {1} :
        ScalarTypeOf(schema) \in {"number", "integer"}
            /\ schema.maximum # Undefined}}
    \cup {Validator("minLength", schema.minLength) : x \in {y \in {1} :
        ScalarTypeOf(schema) = "string" /\ schema.minLength # Undefined}}
    \cup {Validator("maxLength", schema.maxLength) : x \in {y \in {1} :
        ScalarTypeOf(schema) = "string" /\ schema.maxLength # Undefined}}
    \cup {Validator("pattern", schema.pattern) : x \in {y \in {1} :
        ScalarTypeOf(schema) = "string" /\ schema.pattern # Undefined}}

(* C25 as stated: the validators of the control built for a scalar schema  *)
(* are exactly those of the constraints present in it (min and max for     *)
(* number and integer; minLength, maxLength and pattern for string), and   *)
(* required if and only if the property is required and the schema does    *)
(* not admit null.                                                         *)
C25_ValidatorsMatchConstraints ==
    last.op = "form"
        => last.ret.validators =
            ConstraintValidators(last.arg.schema)
                \cup (IF last.arg.required /\ ~AdmitsNull(last.arg.schema)
                      THEN {Validator("required", Null)} ELSE {})

\* the control of an integer schema with only a minimum was built without
\* any validator
C25_Witness ==
    /\ last.op = "form"
    /\ last.arg.schema = [type |-> [one |-> "integer"], minimum |-> Num(0),
                          maximum |-> Undefined, minLength |-> Undefined,
                          maxLength |-> Undefined, pattern |-> Undefined,
                          enum |-> FALSE, const |-> Undefined]
    /\ ~last.arg.required
    /\ last.ret.validators = {}

---------------------------------------------------------------------------
(* LocalDataLoaderEtagService: dataLoader$ over the data$ of its fetcher   *)

\* new LocalDataLoader(byId): the lookup object is the map it loads from
createLocalDataLoader(byId) == byId

\* an error notification to a subscriber of dataLoader$
ErrorNotification == [js |-> "error"]

\* dataLoader$ as a record: its subscribers, the buffer of the
\* ReplaySubject(1) that shareReplay connects, whether it has completed
CurOverlay ==
    [consumers |-> consumers, replay |-> replay, completed |-> completed]

OverlayBecomes(o) ==
    /\ consumers' = o.consumers
    /\ replay' = o.replay
    /\ completed' = o.completed

\* the last of the notifications, as the buffer of size 1 keeps it
Buffered(buffer, notifications) ==
    IF Len(notifications) = 0 THEN buffer
    ELSE <<notifications[Len(notifications)]>>

\* the pipe without its catchError: the failure of data$ goes on to the
\* subscribers, and the share is reset by it
pipedWithoutCatch(o, values, failed) ==
    LET loaders == [i \in 1..Len(values) |->
                        createLocalDataLoader(values[i].byId)]
    IN  IF failed
        THEN [o |-> [consumers |-> 0, replay |-> <<>>, completed |-> FALSE],
              out |-> loaders \o <<ErrorNotification>>]
        ELSE [o |-> [o EXCEPT !.replay = Buffered(@, loaders)],
              out |-> loaders]

\* the values of data$, and then its failure if it failed, through map,
\* catchError and the connected share: each value becomes a lookup object;
\* the failure becomes one empty lookup object and the completion, which
\* the share, never reset on completion, keeps with the buffer
piped(o, values, failed) ==
    LET loaders == [i \in 1..Len(values) |->
                        createLocalDataLoader(values[i].byId)]
        recovered == IF failed THEN <<createLocalDataLoader(EmptyById)>>
                     ELSE <<>>
        out == loaders \o recovered
    IN  [o |-> [consumers |-> IF failed THEN 0 ELSE o.consumers,
                replay |-> Buffered(o.replay, out),
                completed |-> failed],
         out |-> out]

\* what dataLoader$ makes of the step of its fetcher to the state s
dataLoaderNotified(s, o) ==
    IF o.consumers > 0 /\ ~o.completed
    THEN LET p == piped(o, s.last.emit, s.last.error)
         IN  [s |-> [s EXCEPT !.last.out = p.out], o |-> p.o]
    ELSE [s |-> s, o |-> o]

\* dataLoader$.subscribe() where every subscriber has a pipe of its own
dataLoaderSubscribeUnshared(s, o) ==
    LET e == subscribe(s)
        p == piped([o EXCEPT !.consumers = @ + 1], e.last.sync, e.hasError)
    IN  [s |-> [e EXCEPT !.last.out = p.out], o |-> p.o]

\* dataLoader$.subscribe(): the subscriber is given what the subject has
\* buffered, and the first one (again the first after a reset on no
\* subscriber) connects the subject to data$
dataLoaderSubscribe(s, o) ==
    IF o.completed
    THEN [s |-> [s EXCEPT !.last.out = o.replay], o |-> o]
    ELSE IF o.consumers > 0
    THEN [s |-> [s EXCEPT !.last.out = o.replay],
          o |-> [o EXCEPT !.consumers = @ + 1]]
    ELSE LET e == subscribe(s)
             p == piped([o EXCEPT !.consumers = 1], e.last.sync, e.hasError)
         IN  [s |-> [e EXCEPT !.last.out = p.out], o |-> p.o]

\* a subscriber of dataLoader$ unsubscribes: the last one resets the share,
\* which unsubscribes from data$ and drops the subject with its buffer
dataLoaderUnsubscribe(s, o) ==
    IF o.consumers = 1
    THEN [s |-> unsubscribeOne(s),
          o |-> [o EXCEPT !.consumers = 0, !.replay = <<>>]]
    ELSE [s |-> s, o |-> [o EXCEPT !.consumers = @ - 1]]

\* the step to the state w of the service: w.s of its fetcher, w.o of
\* dataLoader$
ServiceBecomes(w) ==
    /\ EngineBecomes(w.s)
    /\ OverlayBecomes(w.o)
    /\ UNCHANGED server

\* time passes
OverlayTick ==
    LET w == dataLoaderNotified([Cur("tick") EXCEPT !.now = @ + 1], CurOverlay)
    IN  /\ now < MaxTime
        /\ ServiceBecomes(w)

\* an application calls fetcher.fetch()
OverlayFetch ==
    LET w == dataLoaderNotified(fetchCall(Cur("fetch"), "caller"), CurOverlay)
    IN  /\ WithinBounds(w.s)
        /\ ServiceBecomes(w)

\* an application calls fetcher.reset(newUrl)
OverlayReset ==
    \E newUrl \in Urls \cup {Undefined} :
        LET w == dataLoaderNotified(
                    reset([Cur("reset") EXCEPT !.last.arg = newUrl], newUrl),
                    CurOverlay)
        IN  /\ WithinBounds(w.s)
            /\ ServiceBecomes(w)

\* a consumer subscribes to dataLoader$
OverlaySubscribe ==
    LET w == dataLoaderSubscribe(Cur("subscribe"), CurOverlay)
    IN  /\ consumers < MaxConsumers
        /\ WithinBounds(w.s)
        /\ ServiceBecomes(w)

\* a consumer unsubscribes from dataLoader$
OverlayUnsubscribe ==
    LET w == dataLoaderUnsubscribe(Cur("unsubscribe"), CurOverlay)
    IN  /\ consumers > 0
        /\ ServiceBecomes(w)

\* a pending timer of the fetcher is due and its callback runs
OverlayTimerFires ==
    \E tm \in BagToSet(timers) :
        LET w == dataLoaderNotified(
                    onPollingTimeout(
                        [Cur("timer") EXCEPT !.timers = @ (-) SetToBag({tm})]),
                    CurOverlay)
        IN  /\ tm.due <= now
            /\ WithinBounds(w.s)
            /\ ServiceBecomes(w)

\* the transport settles a request of the fetcher
OverlaySettle(ctx) ==
    \E r \in BagToSet(inflight) :
        /\ r.ctx = ctx
        /\ \E o \in Outcomes(now) :
            LET s0 == [Cur("settle") EXCEPT
                        !.inflight = @ (-) SetToBag({r}),
                        !.last.url = r.url,
                        !.last.ctx = r.ctx]
                s == CASE ctx = "caller" -> fetchResume(s0, o)
                       [] ctx = "start" -> refreshDataResume(s0, o)
                       [] ctx = "poll" ->
                            onPollingTimeoutResume(refreshDataResume(s0, o))
                w == dataLoaderNotified(s, CurOverlay)
            IN  /\ WithinBounds(w.s)
                /\ ServiceBecomes(w)

NextOverlay ==
    \/ OverlayTick
    \/ OverlayFetch
    \/ OverlayReset
    \/ OverlaySubscribe
    \/ OverlayUnsubscribe
    \/ OverlayTimerFires
    \/ OverlaySettle("caller")
    \/ OverlaySettle("start")
    \/ OverlaySettle("poll")

\* a service whose fetcher only dataLoader$ subscribes to
SpecOverlay == Init /\ [][NextOverlay]_vars

---------------------------------------------------------------------------
\* the identifiers asked for: those of the payloads and one of none
Ids == {"x", "y", "z"}

\* the item of the collection with the identifier, the last in array order
\* if several have it, undefined if none has
ItemFor(items, id) ==
    LET at == {i \in 1..Len(items) : items[i][idKey] = id}
    IN  IF at = {} THEN Undefined
        ELSE items[CHOOSE i \in at : \A j \in at : j <= i]

\* the lookup object answers every identifier from the collection alone
LoadsFrom(loader, items) ==
    \A id \in Ids : load(loader, id) = ItemFor(items, id)

---------------------------------------------------------------------------
\* the lookup object answers undefined to every identifier
IsEmptyLoader(loader) == \A id \in Ids : load(loader, id) = Undefined

---------------------------------------------------------------------------
(* C23: whatever the number of subscribers of dataLoader$, one             *)
(* subscription to data$ backs them, and none when there is none; a        *)
(* subscriber that is not the first starts nothing in the fetcher and gets *)
(* the buffered lookup object, the most recent one, on subscribing.        *)
C23_OneSubscriptionBacksAllConsumers ==
    /\ consumers > 0 => (observers = 1 /\ ~completed)
    /\ consumers = 0 => observers = 0
    /\ (last.op = "subscribe" /\ consumers >= 2)
            => /\ last.out = replay
               /\ ~StartedPolling(last)
               /\ value # Undefined
                    => (Len(last.out) = 1
                        /\ LoadsFrom(last.out[1], value[itemsKey]))

\* a second subscriber of dataLoader$ subscribed and got the lookup object
\* of the known collection
C23_Witness ==
    /\ last.op = "subscribe"
    /\ consumers = 2
    /\ observers = 1
    /\ value # Undefined
    /\ last.out = <<createLocalDataLoader(value.byId)>>

---------------------------------------------------------------------------
(* C24: with the isEqual of the service, a payload fetched under a         *)
(* subscriber of dataLoader$ yields a new lookup object if and only if no  *)
(* payload is cached or its etag field differs from that of the cached     *)
(* one; the lookup object emitted then answers from the fetched payload.   *)
C24_EmissionIffEtagFieldDiffers ==
    [][(SettledWithBody(last') /\ consumers > 0)
        => /\ (last'.out # <<>>)
                <=> (\/ value = Undefined
                     \/ value.etag # last'.resp.body.etag)
           /\ (last'.out # <<>>)
                => /\ Len(last'.out) = 1
                   /\ LoadsFrom(last'.out[1], last'.resp.body[itemsKey])
                   /\ value' = converter(last'.resp.body)]_vars

\* a payload with the etag field of the cached one and other items was
\* fetched under a subscriber, and nothing was emitted
C24_Witness ==
    /\ SettledWithBody(last)
    /\ last.resp.body = BodyA2
    /\ value = converter(BodyA)
    /\ consumers > 0
    /\ last.out = <<>>
    /\ replay = <<createLocalDataLoader(converter(BodyA).byId)>>

---------------------------------------------------------------------------
(* C36 as stated: a fetch() whose promise is fulfilled, after a response   *)
(* or without a request, returns the cached value, and a value is cached.  *)
C36_FulfilledFetchReturnsValue ==
    /\ (last.op = "settle" /\ last.done = "ok")
            => (last.ret = value /\ last.ret # Undefined)
    /\ (last.op = "fetch" /\ last.calls \in {<<"fresh">>, <<"never">>})
            => (last.ret = value /\ last.ret # Undefined)

\* the first response ever was a 304 and the fetch() of an application
\* returned undefined
C36_Witness ==
    /\ last.op = "settle"
    /\ last.ctx = "caller"
    /\ last.resp.kind = "response"
    /\ last.resp.status = HttpStatusNotModified
    /\ last.done = "ok"
    /\ last.ret = Undefined
    /\ value = Undefined

---------------------------------------------------------------------------
(* C35 as stated: with a value held and no request in flight, the etag     *)
(* becomes another validator only by a response that produced the value    *)
(* or confirmed it: a 304, or a 200 whose body converts to a value equal   *)
(* by isEqual to the one held; not by a 200 without a body or with a body  *)
(* the converter fails on.                                                 *)
C35_EtagOfAcceptedPayload ==
    [][(/\ etag' # etag
        /\ Truthy(etag')
        /\ value' # Undefined
        /\ inflight' = EmptyBag)
        => /\ last'.op = "settle"
           /\ \/ last'.resp.status = HttpStatusNotModified
              \/ /\ SettledWithBody(last')
                 /\ isEqual(value', converter(last'.resp.body))]_vars

\* a 200 without a body left its validator with the value of an earlier
\* response
C35_Witness ==
    /\ SettledWith(last, HttpStatusOk)
    /\ last.resp.body = Null
    /\ last.resp.headers.ETag = Str("v2")
    /\ etag = Str("v2")
    /\ value # Undefined
    /\ inflight = EmptyBag

---------------------------------------------------------------------------
(* The steps of the fetcher with other bounds on what is pending, for      *)
(* what needs two requests in flight or two timers pending                 *)

\* at most maxInflight requests are in flight and maxTimers timers pending
\* in the state s
PendingWithin(s, maxInflight, maxTimers) ==
    /\ BagCardinality(s.inflight) <= maxInflight
    /\ BagCardinality(s.timers) <= maxTimers

TickWithin(maxInflight, maxTimers) ==
    /\ now < MaxTime
    /\ Becomes([Cur("tick") EXCEPT !.now = @ + 1])

FetchWithin(maxInflight, maxTimers) ==
    LET s == fetchCall(Cur("fetch"), "caller")
    IN  /\ PendingWithin(s, maxInflight, maxTimers)
        /\ Becomes(s)

ResetWithin(maxInflight, maxTimers) ==
    \E newUrl \in Urls \cup {Undefined} :
        LET s == reset([Cur("reset") EXCEPT !.last.arg = newUrl], newUrl)
        IN  /\ PendingWithin(s, maxInflight, maxTimers)
            /\ Becomes(s)

SubscribeWithin(maxInflight, maxTimers) ==
    /\ observers < MaxSubs
    /\ \E s \in {subscribe(Cur("subscribe"))} :
        /\ PendingWithin(s, maxInflight, maxTimers)
        /\ Becomes(s)

UnsubscribeWithin(maxInflight, maxTimers) ==
    /\ observers > 0
    /\ Becomes(unsubscribeOne(Cur("unsubscribe")))

TimerFiresWithin(maxInflight, maxTimers) ==
    \E tm \in BagToSet(timers) :
        /\ tm.due <= now
        /\ \E s \in {onPollingTimeout(
                    [Cur("timer") EXCEPT !.timers = @ (-) SetToBag({tm})])} :
            /\ PendingWithin(s, maxInflight, maxTimers)
            /\ Becomes(s)

SettleWithin(ctx, maxInflight, maxTimers) ==
    \E r \in BagToSet(inflight) :
        /\ r.ctx = ctx
        /\ \E o \in Outcomes(now) :
            LET s0 == [Cur("settle") EXCEPT
                        !.inflight = @ (-) SetToBag({r}),
                        !.last.url = r.url,
                        !.last.ctx = r.ctx]
                s == CASE ctx = "caller" -> fetchResume(s0, o)
                       [] ctx = "start" -> refreshDataResume(s0, o)
                       [] ctx = "poll" ->
                            onPollingTimeoutResume(refreshDataResume(s0, o))
            IN  /\ PendingWithin(s, maxInflight, maxTimers)
                /\ Becomes(s)

\* the fetcher with up to MaxPending timers pending
NextTimers ==
    \/ TickWithin(MaxInflight, MaxPending)
    \/ FetchWithin(MaxInflight, MaxPending)
    \/ ResetWithin(MaxInflight, MaxPending)
    \/ SubscribeWithin(MaxInflight, MaxPending)
    \/ UnsubscribeWithin(MaxInflight, MaxPending)
    \/ TimerFiresWithin(MaxInflight, MaxPending)
    \/ SettleWithin("caller", MaxInflight, MaxPending)
    \/ SettleWithin("start", MaxInflight, MaxPending)
    \/ SettleWithin("poll", MaxInflight, MaxPending)

SpecTimers == Init /\ [][NextTimers]_vars

---------------------------------------------------------------------------
(* C33 as stated: at most one timer is pending, and a pending timer is the *)
(* one pollingTimeout holds; no timer is armed over a pending one.         *)
C33_AtMostOneTimerPending ==
    /\ BagCardinality(timers) <= 1
    /\ \A tm \in BagToSet(timers) : tm.held /\ pollingTimeout = TimeoutHandle

\* a subscription armed a timer over the one an earlier subscription left
\* pending
C33_Witness ==
    /\ last.op = "subscribe"
    /\ last.armed # <<>>
    /\ BagCardinality(timers) = 2
    /\ \E tm \in BagToSet(timers) : ~tm.held

---------------------------------------------------------------------------
\* a request of the polling loop was answered with no subscriber left
PollSettledUnobserved(log) ==
    /\ log.op = "settle"
    /\ log.ctx \in {"start", "poll"}
    /\ ~log.error
    /\ observers = 0

(* C32 as stated: a polling-driven request in flight when the last        *)
(* subscriber leaves is still answered, and its response, a 200 or a 304,  *)
(* updates etag, expires and lastFetchTimestamp, and the value if it       *)
(* brings another one; after it no timer is pending and nothing more is    *)
(* requested.                                                              *)
C32_UnobservedResponseStillStored ==
    PollSettledUnobserved(last)
        => /\ last.done = "ok"
                => /\ etag = last.resp.headers.ETag
                   /\ expires = ExpiresOf(last.resp.headers)
                   /\ lastFetchTimestamp = Num(now)
                   /\ SettledWithBody(last) => isEqual(value, converter(last.resp.body))
           /\ timers = EmptyBag
           /\ last.reqs = <<>>
           /\ last.armed = <<>>

\* the poll's request was answered with another payload after the only
\* subscriber had left; it was stored, and a timer is still pending
C32_Witness ==
    /\ PollSettledUnobserved(last)
    /\ last.ctx = "poll"
    /\ SettledWithBody(last)
    /\ value = converter(last.resp.body)
    /\ last.conv # <<>>
    /\ timers # EmptyBag

---------------------------------------------------------------------------
(* C34 as stated: the answer to a request sent to a URL that reset() has   *)
(* since replaced stores neither its payload nor its validator and emits   *)
(* nothing on the change stream.                                           *)
C34_NoStateFromPreviousUrl ==
    [][(last'.op = "settle" /\ last'.url # url')
        => /\ value' = value
           /\ etag' = etag
           /\ last'.emit = <<>>]_vars

\* the payload and the validator of a response from u1 are the state of a
\* fetcher that reset() had moved to u2, and the payload was emitted
C34_Witness ==
    /\ SettledWithBody(last)
    /\ last.url = Str("u1")
    /\ url = Str("u2")
    /\ value = converter(last.resp.body)
    /\ Truthy(etag)
    /\ etag = last.resp.headers.ETag
    /\ last.emit = <<value>>

---------------------------------------------------------------------------
(* Overlapping calls of fetch(): applications call it with up to           *)
(* MaxOverlap requests in flight, and nobody subscribes                    *)

NextOverlap ==
    \/ TickWithin(MaxOverlap, 0)
    \/ FetchWithin(MaxOverlap, 0)
    \/ SettleWithin("caller", MaxOverlap, 0)

SpecOverlap == Init /\ [][NextOverlap]_vars

\* fetch() would judge the resource not fresh and has a URL to ask
JudgedNotFresh ==
    /\ ~FreshByExpires
    /\ ~FreshByRefreshInterval
    /\ NoFreshnessSignal => fetchRefreshesWithoutInterval
    /\ Truthy(url)

\* the value after fetch() handled the body of a 200: the converted body
\* if no value was held or it is not equal to the one held
ValueAfter(body) ==
    IF Truthy(body) /\ ~converterThrows(body)
       /\ (value = Undefined \/ ~isEqual(value, converter(body)))
    THEN converter(body) ELSE value

(* C31: a fetch() called while a request is in flight and the resource is  *)
(* judged not fresh issues a request of its own; every response that a     *)
(* fetch() ends normally on leaves its ETag and Expires as etag and        *)
(* expires and its payload, if it is another one, as the value, so that    *)
(* after both the state is that of the response answered last, whichever   *)
(* request it answers.                                                     *)
C31_OverlappingFetchesLastResponseWins ==
    [][/\ (last'.op = "fetch" /\ inflight # EmptyBag /\ JudgedNotFresh)
            => /\ Len(last'.reqs) = 1
               /\ BagCardinality(inflight') = BagCardinality(inflight) + 1
       /\ (last'.op = "settle" /\ last'.done = "ok")
            => /\ etag' = last'.resp.headers.ETag
               /\ expires' = ExpiresOf(last'.resp.headers)
               /\ value' = ValueAfter(last'.resp.body)]_vars

\* a second fetch() issued its request while the first was in flight
C31_Witness ==
    /\ last.op = "fetch"
    /\ last.calls = <<"request">>
    /\ BagCardinality(inflight) = 2

---------------------------------------------------------------------------
(* C38 as stated: when the fetch of a timer-driven poll fails and the      *)
(* failure is swallowed, the stream going on with its subscribers, the     *)
(* next timer is armed with a delay above zero and nothing is requested    *)
(* before it fires.                                                        *)
C38_SwallowedFailureBacksOff ==
    (PollCompleted(last) /\ OtherFailure(last) /\ observers > 0)
        => /\ last.reqs = <<>>
           /\ Len(last.armed) = 1
           /\ last.armed[1] > 0

\* the request of a poll failed without an HTTP response under a
\* subscriber, and the next timer was armed with no delay
C38_Witness ==
    /\ last.op = "settle"
    /\ last.ctx = "poll"
    /\ last.done = "throw-other"
    /\ observers > 0
    /\ ~hasError
    /\ last.armed = <<0>>
    /\ ArmedFor(0)

---------------------------------------------------------------------------
(* Polling a server: a fetcher with a url and a positive refreshInterval,  *)
(* subscribers that stay, no reset() and no fetch() of an application; the *)
(* server has a version of the resource and answers every request by it    *)

\* the payload of a version: the versions go through payloads of which the
\* third has the etag field of the first
ServerBody(v) ==
    IF v % 3 = 1 THEN BodyA ELSE IF v % 3 = 2 THEN BodyB ELSE BodyA2

\* the ETag header of a version
ServerETag(v) == [js |-> "string", s |-> "version", v |-> v]

\* the answers to a request that carried the validator ifNoneMatch, at the
\* time t: a 304 if it is the validator of the current version, which the
\* transport hands over as a response or as an HttpErrorResponse, and a 200
\* with the payload otherwise; with or without an Expires ahead
ServerOutcomes(ifNoneMatch, t) ==
    LET headers == {[ETag |-> ServerETag(server), Expires |-> e] :
                        e \in {Null, HttpDate(t + 1)}}
    IN  IF ifNoneMatch = ServerETag(server)
        THEN {[kind |-> k, status |-> HttpStatusNotModified, headers |-> h,
               body |-> Null] : k \in {"response", "httpError"}, h \in headers}
        ELSE {[kind |-> "response", status |-> HttpStatusOk, headers |-> h,
               body |-> ServerBody(server)] : h \in headers}

RefreshIntervalsPolling == {Num(1), Num(2)}

InitPolling ==
    /\ now = 1
    /\ url = Str("u1")
    /\ etag = Null
    /\ expires = Null
    /\ lastFetchTimestamp = Null
    /\ value = Undefined
    /\ pollingTimeout = Undefined
    /\ loading = FALSE
    /\ refreshInterval \in RefreshIntervalsPolling
    /\ fetchRefreshesWithoutInterval \in BOOLEAN
    /\ observers = 0
    /\ hasError = FALSE
    /\ timers = EmptyBag
    /\ inflight = EmptyBag
    /\ consumers = 0
    /\ replay = <<>>
    /\ completed = FALSE
    /\ server = 1
    /\ last = Log("init")

\* the resource changes on the server, early enough for a timer armed by
\* then to be due within the time the model has
ServerChanges ==
    /\ server < MaxVersion
    /\ now + refreshInterval.n <= MaxTime
    /\ server' = server + 1
    /\ last' = Log("server")
    /\ UNCHANGED <<now, url, etag, expires, lastFetchTimestamp, value,
                   pollingTimeout, loading, refreshInterval,
                   fetchRefreshesWithoutInterval, observers, hasError, timers,
                   inflight, consumers, replay, completed>>

\* the server answers a request of the polling loop. No other request is
\* in flight and nothing but an answer changes etag, so the validator the
\* request carried is etag
ServerAnswers ==
    \E r \in BagToSet(inflight) :
        \E o \in ServerOutcomes(etag, now) :
            LET s0 == [Cur("settle") EXCEPT
                        !.inflight = @ (-) SetToBag({r}),
                        !.last.url = r.url,
                        !.last.ctx = r.ctx]
            IN  /\ r.ctx \in {"start", "poll"}
                /\ \E s \in {IF r.ctx = "start"
                              THEN refreshDataResume(s0, o)
                              ELSE onPollingTimeoutResume(
                                        refreshDataResume(s0, o))} :
                    /\ PendingWithin(s, MaxInflight, MaxTimers)
                    /\ Becomes(s)

NextPolling ==
    \/ TickWithin(MaxInflight, MaxTimers)
    \/ SubscribeWithin(MaxInflight, MaxTimers)
    \/ TimerFiresWithin(MaxInflight, MaxTimers)
    \/ ServerChanges
    \/ ServerAnswers

\* time passes, a due timer fires, every request is answered, and a
\* subscriber comes
SpecPolling ==
    /\ InitPolling
    /\ [][NextPolling]_vars
    /\ WF_vars(TickWithin(MaxInflight, MaxTimers))
    /\ WF_vars(SubscribeWithin(MaxInflight, MaxTimers))
    /\ WF_vars(TimerFiresWithin(MaxInflight, MaxTimers))
    /\ WF_vars(ServerAnswers)

\* the cached value is the server's version, up to isEqual
ValueIsCurrent ==
    /\ value # Undefined
    /\ isEqual(value, converter(ServerBody(server)))

(* C37: under polling with a positive refreshInterval and subscribers that *)
(* stay, against a server that answers every request by its current        *)
(* version, once the resource has stopped changing the cached value        *)
(* becomes and stays equal by isEqual to the server's version; and every   *)
(* value cached was given to the subscribers in the step that cached it.   *)
C37_EventuallyFresh ==
    /\ <>[]ValueIsCurrent
    /\ [][value' # value
            => (last'.emit = <<value'>> /\ observers' > 0)]_vars

\* the server is at its last version, which a poll fetched and gave to the
\* subscriber
C37_Witness ==
    /\ server = MaxVersion
    /\ last.op = "settle"
    /\ last.ctx = "poll"
    /\ observers > 0
    /\ value = converter(ServerBody(server))
    /\ last.emit = <<value>>

====
